---- MODULE Spec2Model ----
(***************************************************************************)
(* prgpt: a pull-request summary generator.  The repository holds three    *)
(* revisions of the same single-file program:                              *)
(*   "A"  src/main.go                      (no argument, no gate)          *)
(*   "B"  src/unnamed/part_000, 1-109      (argument, gate len(commits)>2) *)
(*   "C"  src/unnamed/part_000, 111-362    (local-model pipeline, gate     *)
(*                                          len(commits)>0)                *)
(* A run is modelled as a sequential state machine: `pc` is the position   *)
(* in main, every blocking external call (a git subprocess, an HTTP call)  *)
(* is one step, and `io` is the ordered log of everything the process did  *)
(* to the outside world (commands run, requests sent, lines printed).      *)
(*                                                                         *)
(* Text is a sequence of tokens (strings); concatenation is \o.  A token   *)
(* is either whitespace (" ", "\n") or a chunk with no leading/trailing    *)
(* whitespace, so strings.TrimSpace is the removal of leading and trailing *)
(* whitespace tokens.                                                      *)
(***************************************************************************)
EXTENDS Integers, Sequences, FiniteSets, TLC

VARIABLES rev, osArgs, pc, exitCode, io,
          currentBranch, baseBranch, commits, detailedDiff, changesOverview,
          content, summary, compressedContent, embeddings, normalized,
          processedEmbeddings, resp

vars == <<rev, osArgs, pc, exitCode, io, currentBranch, baseBranch, commits,
          detailedDiff, changesOverview, content, summary, compressedContent,
          embeddings, normalized, processedEmbeddings, resp>>

locals == <<currentBranch, baseBranch, commits, detailedDiff, changesOverview,
            content, summary, compressedContent, embeddings, normalized,
            processedEmbeddings, resp>>

----------------------------------------------------------------------------
(* Bounds *)

\* longest content list of a remote response body
MaxSegments == 2
\* longest embedding vector
MaxDim == 2
\* The float64 format scaled down: bits of mantissa, and the exponent range.
\* A finite float is m * 2^j units, 0 <= m < 2^MantBits, 0 <= j <= ExpBias + ExpMax,
\* where one unit is 2^(-ExpBias), the smallest subnormal (float64: 53, 1074, 971).
MantBits == 3
ExpBias == 4
ExpMax == 4

----------------------------------------------------------------------------
(* Text helpers: strings.TrimSpace, strings.TrimPrefix, len *)

IsSpace(tok) == tok \in {" ", "\n", "\t"}

RECURSIVE TrimLeft(_)
TrimLeft(t) ==
    IF t # <<>> /\ IsSpace(Head(t)) THEN TrimLeft(Tail(t)) ELSE t

RECURSIVE TrimRight(_)
TrimRight(t) ==
    IF t # <<>> /\ IsSpace(t[Len(t)]) THEN TrimRight(SubSeq(t, 1, Len(t) - 1)) ELSE t

TrimSpace(t) == TrimRight(TrimLeft(t))

HasPrefix(t, p) == Len(t) >= Len(p) /\ SubSeq(t, 1, Len(p)) = p

TrimPrefix(t, p) == IF HasPrefix(t, p) THEN SubSeq(t, Len(p) + 1, Len(t)) ELSE t

\* byte length of each token a commit log can hold
TokBytes(tok) ==
    CASE tok = "\n" -> 1
      [] tok = " " -> 1
      [] tok = "a1b2c3d - fix login" -> 19
      [] tok = "e4f5a6b - add tests" -> 19
      [] tok = "0c9d8e7 - " -> 10
      [] tok = "## Summary:" -> 11

RECURSIVE ByteLen(_)
ByteLen(t) == IF t = <<>> THEN 0 ELSE TokBytes(Head(t)) + ByteLen(Tail(t))

\* number of commits in a trimmed "git log --pretty=format:..." output: one per line
CommitCount(t) ==
    IF t = <<>> THEN 0 ELSE 1 + Cardinality({i \in DOMAIN t : t[i] = "\n"})

----------------------------------------------------------------------------
(* float64 arithmetic (IEEE 754, round to nearest even, gradual underflow,  *)
(* overflow to infinity), on the scaled-down format                         *)

RECURSIVE Pow2(_)
Pow2(n) == IF n = 0 THEN 1 ELSE 2 * Pow2(n - 1)

Abs(x) == IF x < 0 THEN -x ELSE x
Sign(x) == IF x < 0 THEN -1 ELSE 1

\* 1.0, and the largest finite float, in units
One == Pow2(ExpBias)
MaxStep == ExpBias + ExpMax
MaxFloat == (Pow2(MantBits) - 1) * Pow2(MaxStep)

Fin(k) == [c |-> "fin", k |-> k]
Inf(s) == [c |-> "inf", s |-> s]
NaN == [c |-> "nan"]
Zero == Fin(0)

IsFinite(x) == x.c = "fin"
SignOf(x) == IF x.c = "fin" THEN Sign(x.k) ELSE IF x.c = "inf" THEN x.s ELSE 1

\* the exponent j of the quantum 2^j of the binade that holds n/d units
RECURSIVE Quantum(_, _, _)
Quantum(n, d, j) ==
    IF j > MaxStep \/ n < Pow2(MantBits) * Pow2(j) * d THEN j ELSE Quantum(n, d, j + 1)

\* the float nearest to s * n/d units (n >= 0, d > 0), ties to even
Round(s, n, d) ==
    LET j == Quantum(n, d, 0)
    IN IF j > MaxStep THEN Inf(s)
       ELSE LET q == d * Pow2(j)
                fl == n \div q
                rem == n - fl * q
                m == IF 2 * rem > q \/ (2 * rem = q /\ fl % 2 = 1) THEN fl + 1 ELSE fl
            IN IF m * Pow2(j) > MaxFloat THEN Inf(s) ELSE Fin(s * m * Pow2(j))

FMul(a, b) ==
    IF a.c = "nan" \/ b.c = "nan" THEN NaN
    ELSE IF a.c = "inf" \/ b.c = "inf"
         THEN IF a = Zero \/ b = Zero THEN NaN ELSE Inf(SignOf(a) * SignOf(b))
         ELSE Round(Sign(a.k) * Sign(b.k), Abs(a.k) * Abs(b.k), One)

FAdd(a, b) ==
    IF a.c = "nan" \/ b.c = "nan" THEN NaN
    ELSE IF a.c = "inf" THEN (IF b.c = "inf" /\ b.s # a.s THEN NaN ELSE a)
    ELSE IF b.c = "inf" THEN b
    ELSE Round(Sign(a.k + b.k), Abs(a.k + b.k), 1)

\* fused multiply-add: a * b + c with one rounding
FMA(a, b, c) ==
    IF IsFinite(a) /\ IsFinite(b) /\ IsFinite(c)
    THEN LET x == a.k * b.k + c.k * One IN Round(Sign(x), Abs(x), One)
    ELSE FAdd(FMul(a, b), c)

\* math.Sqrt: correctly rounded
FSqrt(a) ==
    IF a.c = "nan" THEN NaN
    ELSE IF a.c = "inf" THEN (IF a.s > 0 THEN a ELSE NaN)
    ELSE IF a.k < 0 THEN NaN
    ELSE LET x == a.k * One
             j == CHOOSE i \in 0..MaxStep :
                      /\ x < Pow2(2 * MantBits) * Pow2(2 * i)
                      /\ \A h \in 0..(i - 1) : x >= Pow2(2 * MantBits) * Pow2(2 * h)
             fl == CHOOSE m \in 0..Pow2(MantBits) :
                      /\ m * m * Pow2(2 * j) <= x
                      /\ (m + 1) * (m + 1) * Pow2(2 * j) > x
             m == IF 4 * x > (2 * fl + 1) * (2 * fl + 1) * Pow2(2 * j) THEN fl + 1 ELSE fl
         IN Fin(m * Pow2(j))

FDiv(a, b) ==
    IF a.c = "nan" \/ b.c = "nan" THEN NaN
    ELSE IF a.c = "inf" THEN (IF b.c = "inf" THEN NaN ELSE Inf(SignOf(a) * SignOf(b)))
    ELSE IF b.c = "inf" THEN Zero
    ELSE IF b.k = 0 THEN (IF a.k = 0 THEN NaN ELSE Inf(Sign(a.k)))
    ELSE Round(Sign(a.k) * Sign(b.k), Abs(a.k) * One, Abs(b.k))

----------------------------------------------------------------------------
(* JSON values, as encoding/json sees a response body *)

JMalformed == [k |-> "malformed"]
JNull == [k |-> "null"]
JNum == [k |-> "num"]
JStr(s) == [k |-> "str", s |-> s]
JArr(items) == [k |-> "arr", items |-> items]
JObj(f) == [k |-> "obj", f |-> f]

EmptyObj == [key \in {} |-> JNull]

\* map lookup: a missing key and a JSON null both give the nil interface
Lookup(m, key) == IF key \in DOMAIN m THEN m[key] ELSE JNull

----------------------------------------------------------------------------
(* Inputs: what the collaborators can answer *)

Revs == {"A", "B", "C"}

\* os.Args[1:]: no argument, or one base branch
ArgChoices == {<<>>, << <<"main">> >>, << <<"release">> >>}

BranchOutputs == {<<"feature", "\n">>, <<"fix/login", "\n">>}
BaseOutputs == {<<"origin/", "main", "\n">>, <<"origin/", "develop", "\n">>}
LogOutputs ==
    { <<>>,
      <<"a1b2c3d - fix login">>,
      <<"a1b2c3d - fix login", "\n", "e4f5a6b - add tests", "\n">>,
      <<"0c9d8e7 - ", "## Summary:">> }
DiffOutputs == {<<"diff --git a/x b/x", "\n">>}
StatOutputs == {<<" ", "x | 2 +-", "\n">>}

CmdResults(outs) == {[err |-> TRUE, stdout |-> <<>>]} \cup {[err |-> FALSE, stdout |-> o] : o \in outs}

SummaryTexts == {<<"Adds login fix">>, <<>>}

\* the segments a content list can hold
Segments ==
    {JObj([text |-> JStr(x)]) : x \in SummaryTexts}
        \cup {JObj([type |-> JStr(<<"text">>), text |-> JStr(<<"Second">>)]),
              JObj([text |-> JNum]), JObj(EmptyObj), JStr(<<"x">>), JNull}

RECURSIVE SeqsUpTo(_, _)
SeqsUpTo(S, n) ==
    IF n = 0 THEN {<<>>}
    ELSE LET shorter == SeqsUpTo(S, n - 1)
         IN shorter \cup {Append(s, x) : s \in {q \in shorter : Len(q) = n - 1}, x \in S}

ContentLists == SeqsUpTo(Segments, MaxSegments)

AnthropicBodies ==
    {JMalformed, JNull, JArr(<<>>), JStr(<<"overloaded">>), JObj(EmptyObj),
     JObj([content |-> JNull]), JObj([content |-> JStr(<<"x">>)]),
     JObj([type |-> JStr(<<"error">>)])}
        \cup {JObj([content |-> JArr(l)]) : l \in ContentLists}
        \cup {JObj([id |-> JNum, content |-> JArr(l)]) : l \in SeqsUpTo(Segments, 1)}

HttpResults(bodies) ==
    {[err |-> TRUE]} \cup {[err |-> FALSE, status |-> s, body |-> b] : s \in {200, 529}, b \in bodies}


\* the values an embedding can hold: zero, the smallest and the largest float, and
\* ordinary values
EmbValues == {Zero, Fin(1), Fin(One), Fin(-One), Fin(3 * One), Fin(4 * One), Fin(MaxFloat)}
EmbVectors == SeqsUpTo(EmbValues, MaxDim)

JFloat(x) == [k |-> "num", v |-> x]
JFloats(v) == JArr([i \in DOMAIN v |-> JFloat(v[i])])

\* what the local embedding endpoint answers in a pipeline run
EmbeddingBodies ==
    {JMalformed, JObj(EmptyObj), JObj([embedding |-> JStr(<<"x">>)])}
        \cup {JObj([embedding |-> JFloats(v)]) :
                v \in {<<>>, <<Fin(3 * One), Fin(4 * One)>>, <<Fin(MaxFloat)>>}}

CompressedTexts == {<<"login fixed">>}

\* what the local generation endpoint answers
CompletionBodies ==
    {JMalformed, JObj([done |-> JNum]), JObj([response |-> JNum])}
        \cup {JObj([response |-> JStr(t)]) : t \in CompressedTexts}

----------------------------------------------------------------------------
(* The program's constants *)

anthropicAPIURL == "https://api.anthropic.com/v1/messages"
ollamaAPIURL == "http://localhost:11434/api/embeddings"
ollamaCompletionURL == "http://localhost:11434/api/generate"

Fallback == <<"Unable to generate summary">>

\* getAnthropicSummary's resp before client.Do has returned
NoResponse == [err |-> FALSE, status |-> 0, body |-> [k |-> "none"]]

----------------------------------------------------------------------------
(* I/O events *)

ExecEv(args, res) ==
    [op |-> "exec", name |-> "git", args |-> args, ok |-> ~res.err, out |-> res.stdout]
HttpEv(url, req) == [op |-> "http", url |-> url, req |-> req]
PrintEv(text) == [op |-> "print", text |-> text]

IsExec(e) == e.op = "exec"
IsHttp(e, url) == e.op = "http" /\ e.url = url
IsPrint(e) == e.op = "print"

----------------------------------------------------------------------------
(* getCommandOutput *)

\* a getCommandOutput that goes on after a failed command
getCommandOutput_NoExit(res) == [exit |-> FALSE, out |-> TrimSpace(res.stdout)]

\* what a call comes to: the process exits with status 1, or the trimmed stdout
getCommandOutput(res) ==
    IF res.err THEN [exit |-> TRUE, out |-> <<>>]
    ELSE [exit |-> FALSE, out |-> TrimSpace(res.stdout)]

CmdError == <<"Error executing command: ", "exit status 128", "\n">>

Range(base, cur) == base \o <<"..">> \o cur

----------------------------------------------------------------------------
(* Templates: fmt.Sprintf with %s arguments *)

\* main: the content handed to getAnthropicSummary
Content(r, cs, diff, stat) ==
    IF r = "A"
    THEN <<"Commits:", "\n">> \o cs \o <<"\n", "\n", "Changes Overview:", "\n">> \o stat
    ELSE <<"Detailed Changes:", "\n">> \o diff \o <<"\n", "\n", "Changes Overview:", "\n">> \o stat

ContentWithCommits(c, cs) == c \o <<"\n", "\n", "Commits:", "\n">> \o cs

SummaryHeader(r) == IF r = "C" THEN "# Summary:" ELSE "## Summary:"

\* a report whose commits and changes overview are swapped
prSummary_Swapped(r, branch, cs, stat, sum) ==
    <<"# Pull Request Summary", "\n", "\n", "## Branch:", " ">> \o branch
        \o <<"\n", "\n", "## Commits:", "\n">> \o stat
        \o <<"\n", "\n", "## Changes Overview:", "\n">> \o cs
        \o <<"\n", "\n", SummaryHeader(r), "\n">> \o sum
        \o <<"\n", "\n", "## Detailed Description:", "\n",
             "<!-- Please provide a detailed description of the changes in this PR -->", "\n">>

\* main: the report
prSummary(r, branch, cs, stat, sum) ==
    <<"# Pull Request Summary", "\n", "\n", "## Branch:", " ">> \o branch
        \o <<"\n", "\n", "## Commits:", "\n">> \o cs
        \o <<"\n", "\n", "## Changes Overview:", "\n">> \o stat
        \o <<"\n", "\n", SummaryHeader(r), "\n">> \o sum
        \o <<"\n", "\n", "## Detailed Description:", "\n",
             "<!-- Please provide a detailed description of the changes in this PR -->", "\n">>

\* getAnthropicSummary (A, B): the prompt
PromptAB(c) ==
    <<"Summarize the following Git commits and changes overview:", "\n", "\n">> \o c
        \o <<"\n", "\n", "Provide a concise summary of the changes:">>

\* getAnthropicSummary (C): the prompt
PromptC(processed, compressed, c) ==
    <<"Here are the Git changes with their semantic embeddings:", "\n", "\n", "Embeddings:", " ">>
        \o processed
        \o <<"\n", "\n", "Compressed Changes:", "\n">> \o compressed
        \o <<"\n", "\n", "Original Content Summary:", "\n">> \o c
        \o <<"\n", "\n", "Based on these changes, provide a concise summary of the modifications:">>

\* compressLogs: the prompt
PromptCompress(c) ==
    <<"Compress and summarize the following git changes into a concise but informative format, ",
      "\n", "preserving the most important technical details:", "\n", "\n">> \o c
        \o <<"\n", "\n", "Compressed summary:">>

AnthropicRequest(r, prompt) ==
    IF r = "C"
    THEN [model |-> "claude-3-5-sonnet-latest", max_tokens |-> 4096, prompt |-> prompt]
    ELSE [model |-> "claude-3-5-sonnet-20240620", max_tokens |-> 8096, prompt |-> prompt]

----------------------------------------------------------------------------
(* processEmbeddings *)

\* the loop "magnitude += v * v"; the compiler may fuse it into one operation
RECURSIVE SumSquares(_, _, _)
SumSquares(v, acc, fused) ==
    IF v = <<>> THEN acc
    ELSE SumSquares(Tail(v),
                    IF fused THEN FMA(Head(v), Head(v), acc) ELSE FAdd(acc, FMul(Head(v), Head(v))),
                    fused)

Magnitude(v, fused) == FSqrt(SumSquares(v, Zero, fused))

Normalize(v, fused) == [i \in DOMAIN v |-> FDiv(v[i], Magnitude(v, fused))]

\* json.Marshal of a []float64: an error (and no bytes) on a NaN or an infinity;
\* a number is written as its count of units (the sign of a zero is not kept)
jsonMarshalFloats(v) ==
    IF \E i \in DOMAIN v : ~IsFinite(v[i]) THEN [err |-> TRUE, bytes |-> <<>>]
    ELSE IF v = <<>> THEN [err |-> FALSE, bytes |-> <<"[", "]">>]
    ELSE [err |-> FALSE,
          bytes |-> <<"[">> \o [i \in 1..(2 * Len(v) - 1) |->
                                  IF i % 2 = 1 THEN ToString(v[(i + 1) \div 2].k) ELSE ","]
                      \o <<"]">>]

\* base64.StdEncoding.EncodeToString: injective, empty on no bytes
base64Encode(bytes) == IF bytes = <<>> THEN <<>> ELSE <<"base64(">> \o bytes \o <<")">>

processEmbeddings(v, fused) == base64Encode(jsonMarshalFloats(Normalize(v, fused)).bytes)

----------------------------------------------------------------------------
(* Decoding the responses *)

\* json.Unmarshal into map[string]interface{} (A, B): nil unless the body is an object
UnmarshalGeneric(body) == IF body.k = "obj" THEN body.f ELSE EmptyObj

\* getAnthropicSummary (A, B), after the call returned a response: the first
\* segment's text; content[0].(map[string]interface{}) is an unchecked type
\* assertion and panics on a first element that is not an object
ExtractGeneric(body) ==
    LET c == Lookup(UnmarshalGeneric(body), "content")
    IN IF c.k = "arr" /\ Len(c.items) > 0
       THEN LET first == c.items[1]
            IN IF first.k # "obj" THEN [panic |-> TRUE, text |-> <<>>]
               ELSE LET t == Lookup(first.f, "text")
                    IN IF t.k = "str" THEN [panic |-> FALSE, text |-> t.s]
                       ELSE [panic |-> FALSE, text |-> Fallback]
       ELSE [panic |-> FALSE, text |-> Fallback]

\* json.Unmarshal of one element into struct{Text string `json:"text"`}
DecodeSegment(seg) ==
    IF seg.k = "null" THEN [err |-> FALSE, Text |-> <<>>]
    ELSE IF seg.k # "obj" THEN [err |-> TRUE, Text |-> <<>>]
    ELSE LET t == Lookup(seg.f, "text")
         IN IF t.k = "str" THEN [err |-> FALSE, Text |-> t.s]
            ELSE [err |-> t.k # "null", Text |-> <<>>]

\* json.Unmarshal into struct{Content []struct{Text string}} (C)
UnmarshalTyped(body) ==
    IF body.k = "null" THEN [err |-> FALSE, Content |-> <<>>]
    ELSE IF body.k # "obj" THEN [err |-> TRUE, Content |-> <<>>]
    ELSE LET c == Lookup(body.f, "content")
         IN IF c.k = "null" THEN [err |-> FALSE, Content |-> <<>>]
            ELSE IF c.k # "arr" THEN [err |-> TRUE, Content |-> <<>>]
            ELSE [err |-> \E i \in DOMAIN c.items : DecodeSegment(c.items[i]).err,
                  Content |-> [i \in DOMAIN c.items |-> DecodeSegment(c.items[i]).Text]]

\* an ExtractTyped that returns the last segment's text
ExtractTyped_Last(body) ==
    LET result == UnmarshalTyped(body)
    IN IF result.err THEN [panic |-> FALSE, text |-> Fallback]
       ELSE IF Len(result.Content) > 0
            THEN [panic |-> FALSE, text |-> result.Content[Len(result.Content)]]
       ELSE [panic |-> FALSE, text |-> Fallback]

\* getAnthropicSummary (C), after the call returned a response
ExtractTyped(body) ==
    LET result == UnmarshalTyped(body)
    IN IF result.err THEN [panic |-> FALSE, text |-> Fallback]
       ELSE IF Len(result.Content) > 0 THEN [panic |-> FALSE, text |-> result.Content[1]]
       ELSE [panic |-> FALSE, text |-> Fallback]

\* a getAnthropicSummary that returns the empty string when the call fails
getAnthropicSummary_Empty(r, answer) ==
    IF answer.err THEN [panic |-> FALSE, text |-> <<>>]
    ELSE IF r = "C" THEN ExtractTyped(answer.body) ELSE ExtractGeneric(answer.body)

\* getAnthropicSummary, from client.Do on: what it returns, or that it panics
getAnthropicSummary(r, answer) ==
    IF answer.err THEN [panic |-> FALSE, text |-> Fallback]
    ELSE IF r = "C" THEN ExtractTyped(answer.body) ELSE ExtractGeneric(answer.body)

\* a getAnthropicSummary that is called again when it came back with the fallback
AfterSummary_Retry(r) ==
    IF r.panic THEN "panicked" ELSE IF r.text = Fallback THEN "anthropic" ELSE "report"

\* where the run goes when getAnthropicSummary is over: back into main, which
\* builds and prints the report, or out of the process on a panic
AfterSummary(r) == IF r.panic THEN "panicked" ELSE "report"

\* what getAnthropicSummary prints around the call
AnthropicPrints(r, answer) ==
    IF answer.err THEN <<PrintEv(<<"Error calling Anthropic API: ", "%v", "\n">>)>>
    ELSE IF r # "C" THEN <<>>
    ELSE <<[op |-> "print", text |-> <<"Anthropic API Response: ", "%s", "\n">>, raw |-> answer.body]>>
           \o (IF UnmarshalTyped(answer.body).err
               THEN <<PrintEv(<<"Error unmarshaling response: ", "%v", "\n">>)>> ELSE <<>>)

\* compressLogs: json.NewDecoder(...).Decode into OllamaCompletionResponse
compressLogs(answer) ==
    IF answer.err THEN [err |-> TRUE, text |-> <<>>]
    ELSE LET b == answer.body
         IN IF b.k = "null" THEN [err |-> FALSE, text |-> <<>>]
            ELSE IF b.k # "obj" THEN [err |-> TRUE, text |-> <<>>]
            ELSE LET t == Lookup(b.f, "response")
                     d == Lookup(b.f, "done")
                 IN [err |-> t.k \notin {"str", "null"} \/ d.k \notin {"bool", "null"},
                     text |-> IF t.k = "str" THEN t.s ELSE <<>>]

\* a fallback that keeps compressLogs' empty result
CompressedOrOriginal_Empty(r, c) == r.text

\* getAnthropicSummary (C): the compressed content, or the original on an error
CompressedOrOriginal(r, c) == IF r.err THEN c ELSE r.text

\* getEmbeddings: json.NewDecoder(...).Decode into OllamaEmbeddingResponse
getEmbeddings(answer) ==
    IF answer.err THEN [err |-> TRUE, embedding |-> <<>>]
    ELSE LET b == answer.body
         IN IF b.k = "null" THEN [err |-> FALSE, embedding |-> <<>>]
            ELSE IF b.k # "obj" THEN [err |-> TRUE, embedding |-> <<>>]
            ELSE LET e == Lookup(b.f, "embedding")
                 IN IF e.k = "null" THEN [err |-> FALSE, embedding |-> <<>>]
                    ELSE IF e.k # "arr" THEN [err |-> TRUE, embedding |-> <<>>]
                    ELSE IF \E i \in DOMAIN e.items : e.items[i].k \notin {"num", "null"}
                    THEN [err |-> TRUE, embedding |-> <<>>]
                    ELSE [err |-> FALSE,
                          embedding |-> [i \in DOMAIN e.items |->
                                           IF e.items[i].k = "num" THEN e.items[i].v ELSE Zero]]

----------------------------------------------------------------------------
(* main *)

\* main: whether getAnthropicSummary is called
CallsSummary(r, cs) ==
    CASE r = "A" -> TRUE
      [] r = "B" -> ~(ByteLen(cs) > 2)
      [] r = "C" -> ByteLen(cs) > 0

\* main: the base of the compared range
BaseBranch(r, args, out) ==
    IF r # "A" /\ Len(args) > 0 THEN args[1] ELSE TrimPrefix(out, <<"origin/">>)

Init ==
    /\ rev \in Revs
    /\ osArgs \in ArgChoices
    /\ pc = "currentBranch"
    /\ exitCode = -1
    /\ io = <<>>
    /\ currentBranch = <<>> /\ baseBranch = <<>> /\ commits = <<>>
    /\ detailedDiff = <<>> /\ changesOverview = <<>> /\ content = <<>>
    /\ summary = <<>> /\ compressedContent = <<>> /\ embeddings = <<>>
    /\ normalized = <<>> /\ processedEmbeddings = <<>>
    /\ resp = NoResponse

\* getCommandOutput's os.Exit(1), after the command ran
Exit1(ev) ==
    /\ io' = io \o <<ev, PrintEv(CmdError)>>
    /\ pc' = "exited"
    /\ exitCode' = 1
    /\ UNCHANGED <<rev, osArgs, locals>>

GetCurrentBranch ==
    /\ pc = "currentBranch"
    /\ \E res \in CmdResults(BranchOutputs) :
         LET ev == ExecEv(<< <<"rev-parse">>, <<"--abbrev-ref">>, <<"HEAD">> >>, res)
             r == getCommandOutput(res)
         IN IF r.exit THEN Exit1(ev)
            ELSE /\ io' = Append(io, ev)
                 /\ currentBranch' = r.out
                 /\ pc' = "baseBranch"
                 /\ UNCHANGED <<rev, osArgs, exitCode, baseBranch, commits, detailedDiff,
                                changesOverview, content, summary, compressedContent,
                                embeddings, normalized, processedEmbeddings, resp>>

GetBaseBranch ==
    /\ pc = "baseBranch"
    /\ \E res \in CmdResults(BaseOutputs) :
         LET ev == ExecEv(<< <<"rev-parse">>, <<"--abbrev-ref">>, <<"origin/HEAD">> >>, res)
             r == getCommandOutput(res)
         IN IF r.exit THEN Exit1(ev)
            ELSE /\ io' = Append(io, ev)
                 /\ baseBranch' = BaseBranch(rev, osArgs, r.out)
                 /\ pc' = "commits"
                 /\ UNCHANGED <<rev, osArgs, exitCode, currentBranch, commits, detailedDiff,
                                changesOverview, content, summary, compressedContent,
                                embeddings, normalized, processedEmbeddings, resp>>

GetCommits ==
    /\ pc = "commits"
    /\ \E res \in CmdResults(LogOutputs) :
         LET ev == ExecEv(<< <<"log">>, Range(baseBranch, currentBranch),
                             <<"--pretty=format:%h - %s">> >>, res)
             r == getCommandOutput(res)
         IN IF r.exit THEN Exit1(ev)
            ELSE /\ io' = Append(io, ev)
                 /\ commits' = r.out
                 /\ pc' = IF rev = "A" THEN "changesOverview" ELSE "detailedDiff"
                 /\ UNCHANGED <<rev, osArgs, exitCode, currentBranch, baseBranch, detailedDiff,
                                changesOverview, content, summary, compressedContent,
                                embeddings, normalized, processedEmbeddings, resp>>

GetDetailedDiff ==
    /\ pc = "detailedDiff"
    /\ \E res \in CmdResults(DiffOutputs) :
         LET ev == ExecEv(<< <<"diff">>, Range(baseBranch, currentBranch) >>, res)
             r == getCommandOutput(res)
         IN IF r.exit THEN Exit1(ev)
            ELSE /\ io' = Append(io, ev)
                 /\ detailedDiff' = r.out
                 /\ pc' = "changesOverview"
                 /\ UNCHANGED <<rev, osArgs, exitCode, currentBranch, baseBranch, commits,
                                changesOverview, content, summary, compressedContent,
                                embeddings, normalized, processedEmbeddings, resp>>

\* the last command, and main up to the call of getAnthropicSummary or the report
GetChangesOverview ==
    /\ pc = "changesOverview"
    /\ \E res \in CmdResults(StatOutputs) :
         LET ev == ExecEv(<< <<"diff">>, <<"--stat">>, Range(baseBranch, currentBranch) >>, res)
             r == getCommandOutput(res)
             c == Content(rev, commits, detailedDiff, r.out)
         IN IF r.exit THEN Exit1(ev)
            ELSE /\ changesOverview' = r.out
                 /\ IF CallsSummary(rev, commits)
                    THEN /\ io' = Append(io, ev)
                         /\ content' = c
                         /\ pc' = IF rev = "C" THEN "compress" ELSE "anthropic"
                    ELSE /\ io' = io \o <<ev>>
                                \o (IF rev = "B" THEN <<PrintEv(<<"Printing out content", "\n">>)>>
                                    ELSE <<>>)
                         /\ content' = IF rev = "B" THEN ContentWithCommits(c, commits) ELSE c
                         /\ pc' = "report"
                 /\ UNCHANGED <<rev, osArgs, exitCode, currentBranch, baseBranch, commits,
                                detailedDiff, summary, compressedContent, embeddings,
                                normalized, processedEmbeddings, resp>>

\* getAnthropicSummary (C): compressLogs and the fallback to the original content
CompressLogs ==
    /\ pc = "compress"
    /\ \E answer \in HttpResults(CompletionBodies) :
         LET ev == HttpEv(ollamaCompletionURL,
                          [model |-> "llama2:3.2", prompt |-> PromptCompress(content),
                           stream |-> FALSE])
             r == compressLogs(answer)
         IN /\ io' = io \o <<ev>>
                   \o (IF r.err THEN <<PrintEv(<<"Error compressing logs: ", "%v", "\n">>)>>
                       ELSE <<>>)
            /\ compressedContent' = CompressedOrOriginal(r, content)
            /\ pc' = "embed"
    /\ UNCHANGED <<rev, osArgs, exitCode, currentBranch, baseBranch, commits, detailedDiff,
                   changesOverview, content, summary, embeddings, normalized,
                   processedEmbeddings, resp>>

\* getAnthropicSummary (C): getEmbeddings, then processEmbeddings
GetEmbeddings ==
    /\ pc = "embed"
    /\ \E answer \in HttpResults(EmbeddingBodies), fused \in BOOLEAN :
         LET ev == HttpEv(ollamaAPIURL, [model |-> "nomic-embed-text", prompt |-> compressedContent])
             r == getEmbeddings(answer)
         IN IF r.err
            THEN /\ io' = io \o <<ev, PrintEv(<<"Error getting embeddings: ", "%v", "\n">>)>>
                 /\ summary' = Fallback
                 /\ pc' = "report"
                 /\ UNCHANGED <<embeddings, normalized, processedEmbeddings>>
            ELSE /\ io' = Append(io, ev)
                 /\ embeddings' = r.embedding
                 /\ normalized' = Normalize(r.embedding, fused)
                 /\ processedEmbeddings' = processEmbeddings(r.embedding, fused)
                 /\ pc' = "anthropic"
                 /\ UNCHANGED summary
    /\ UNCHANGED <<rev, osArgs, exitCode, currentBranch, baseBranch, commits, detailedDiff,
                   changesOverview, content, compressedContent, resp>>

\* getAnthropicSummary: the request to the remote API and what comes of the response
CallAnthropic ==
    /\ pc = "anthropic"
    /\ \E answer \in HttpResults(AnthropicBodies) :
         LET prompt == IF rev = "C" THEN PromptC(processedEmbeddings, compressedContent, content)
                       ELSE PromptAB(content)
             ev == HttpEv(anthropicAPIURL, AnthropicRequest(rev, prompt))
             r == getAnthropicSummary(rev, answer)
         IN /\ io' = io \o <<ev>> \o AnthropicPrints(rev, answer)
            /\ resp' = answer
            /\ pc' = AfterSummary(r)
            /\ IF r.panic
               THEN /\ exitCode' = 2
                    /\ UNCHANGED summary
               ELSE /\ summary' = r.text
                    /\ UNCHANGED exitCode
    /\ UNCHANGED <<rev, osArgs, currentBranch, baseBranch, commits, detailedDiff,
                   changesOverview, content, compressedContent, embeddings, normalized,
                   processedEmbeddings>>

\* main: fmt.Println(prSummary), and the return from main
PrintReport ==
    /\ pc = "report"
    /\ io' = Append(io, PrintEv(prSummary(rev, currentBranch, commits, changesOverview, summary)
                                    \o <<"\n">>))
    /\ pc' = "done"
    /\ exitCode' = 0
    /\ UNCHANGED <<rev, osArgs, locals>>

Next ==
    \/ GetCurrentBranch
    \/ GetBaseBranch
    \/ GetCommits
    \/ GetDetailedDiff
    \/ GetChangesOverview
    \/ CompressLogs
    \/ GetEmbeddings
    \/ CallAnthropic
    \/ PrintReport

Spec == Init /\ [][Next]_vars

----------------------------------------------------------------------------
(* processEmbeddings on its own *)

NormInit ==
    /\ rev = "C"
    /\ osArgs = <<>>
    /\ pc = "processEmbeddings"
    /\ exitCode = -1
    /\ io = <<>>
    /\ currentBranch = <<>> /\ baseBranch = <<>> /\ commits = <<>>
    /\ detailedDiff = <<>> /\ changesOverview = <<>> /\ content = <<>>
    /\ summary = <<>> /\ compressedContent = <<>>
    /\ embeddings \in EmbVectors
    /\ normalized = <<>> /\ processedEmbeddings = <<>>
    /\ resp = NoResponse

ProcessEmbeddings ==
    /\ pc = "processEmbeddings"
    /\ \E fused \in BOOLEAN :
         /\ normalized' = Normalize(embeddings, fused)
         /\ processedEmbeddings' = processEmbeddings(embeddings, fused)
    /\ pc' = "processed"
    /\ UNCHANGED <<rev, osArgs, exitCode, io, currentBranch, baseBranch, commits, detailedDiff,
                   changesOverview, content, summary, compressedContent, embeddings, resp>>

NormSpec == NormInit /\ [][ProcessEmbeddings]_vars

----------------------------------------------------------------------------
(* Views of a run *)

Failed(e) == IsExec(e) /\ ~e.ok
IsReport(e) == IsPrint(e) /\ e.text # <<>> /\ e.text[1] = "# Pull Request Summary"
StartsWith(e, tok) == IsPrint(e) /\ e.text # <<>> /\ e.text[1] = tok

FailedExecs == {i \in DOMAIN io : Failed(io[i])}
AnthropicRequests == {i \in DOMAIN io : IsHttp(io[i], anthropicAPIURL)}
CompressRequests == {i \in DOMAIN io : IsHttp(io[i], ollamaCompletionURL)}
EmbeddingRequests == {i \in DOMAIN io : IsHttp(io[i], ollamaAPIURL)}
Reports == {i \in DOMAIN io : IsReport(io[i])}
CompressFailed == \E i \in DOMAIN io : StartsWith(io[i], "Error compressing logs: ")
EmbeddingFailed == \E i \in DOMAIN io : StartsWith(io[i], "Error getting embeddings: ")

\* successful runs of the git subcommand `sub` (with `flag` as its second word, if any)
Ran(sub, flag) ==
    {i \in DOMAIN io : /\ IsExec(io[i]) /\ io[i].ok /\ io[i].args[1] = <<sub>>
                       /\ (flag # "" => io[i].args[2] = <<flag>>)}

Positions(t, tok) == {i \in DOMAIN t : t[i] = tok}

\* the content list of a response body, empty when it has none
ContentList(body) ==
    IF body.k = "obj" /\ "content" \in DOMAIN body.f /\ body.f["content"].k = "arr"
    THEN body.f["content"].items ELSE <<>>

HasText(seg) == seg.k = "obj" /\ "text" \in DOMAIN seg.f /\ seg.f["text"].k = "str"

Answered == resp # NoResponse

----------------------------------------------------------------------------
(* C1 *)

\* C1: a failed git command ends the run at once with exit status 1: the failed
\* command is the last one run (no later command, no retry), it is followed only by
\* the error line, no HTTP request is ever sent and no report is printed.
C1_FailedCommandIsFatal ==
    \A i \in FailedExecs :
        /\ pc = "exited" /\ exitCode = 1
        /\ Len(io) = i + 1 /\ io[i + 1] = PrintEv(CmdError)
        /\ \A j \in DOMAIN io : j # i => ~(IsExec(io[j]) /\ io[j].args = io[i].args)
        /\ \A j \in DOMAIN io : io[j].op # "http"
        /\ Reports = {}

\* the diff command of the local-model revision fails after three commands went well
C1_Witness ==
    /\ rev = "C" /\ pc = "exited"
    /\ \E i \in FailedExecs : i = 4 /\ io[i].args[1] = <<"diff">>

----------------------------------------------------------------------------
(* C2 *)

\* C2: getAnthropicSummary returns exactly "Unable to generate summary" when the
\* remote call errors, when the body is malformed JSON, when the body has no content
\* list or an empty one, and when the embedding call fails; it returns nothing else
\* (and does not panic) in these cases.
C2_FallbackOnFailure ==
    /\ (Answered /\ (resp.err \/ ContentList(resp.body) = <<>>))
          => (pc \in {"report", "done"} /\ summary = Fallback)
    /\ EmbeddingFailed => (pc \in {"report", "done"} /\ summary = Fallback /\ ~Answered)

\* the remote API answered 529 with a body that is not JSON, and the report is out
C2_Witness ==
    /\ pc = "done" /\ Answered /\ ~resp.err
    /\ resp.body = JMalformed /\ resp.status = 529

----------------------------------------------------------------------------
(* C3 *)

\* every segment after the first decodes into struct{Text string}: it is null, or an
\* object whose text is absent, null or a string
LaterSegmentsDecode(items) ==
    \A i \in 2..Len(items) :
        \/ items[i].k = "null"
        \/ items[i].k = "obj" /\ Lookup(items[i].f, "text").k \in {"str", "null"}

FirstText(body) == ContentList(body)[1].f["text"].s

TheReport == io[Len(io)].text

\* C3 as stated: whenever the remote response has a non-empty content list whose
\* first segment has the text X, the summary is X, whatever the later segments are.
C3_Original ==
    (Answered /\ ~resp.err /\ ContentList(resp.body) # <<>> /\ HasText(ContentList(resp.body)[1]))
        => (pc \in {"report", "done"} /\ summary = FirstText(resp.body))

\* C3, amended: whenever the remote response has a non-empty content list whose first
\* segment has the text X, the summary is X and the report printed afterwards holds
\* X, whatever the other fields are; in the local-model revision this needs every
\* later segment to decode (otherwise the typed decoding fails as a whole).
C3_FirstSegmentText ==
    (/\ Answered /\ ~resp.err
     /\ ContentList(resp.body) # <<>> /\ HasText(ContentList(resp.body)[1])
     /\ (rev = "C" => LaterSegmentsDecode(ContentList(resp.body))))
        => /\ pc \in {"report", "done"}
           /\ summary = FirstText(resp.body)
           /\ pc = "done" =>
                \E i \in Positions(TheReport, SummaryHeader(rev)),
                   j \in Positions(TheReport, "## Detailed Description:") :
                     SubSeq(TheReport, i + 2, j - 3) = FirstText(resp.body)

\* the local-model revision got two text segments and printed the first one's text
C3_Witness ==
    /\ rev = "C" /\ pc = "done" /\ Answered /\ ~resp.err
    /\ Len(ContentList(resp.body)) = 2
    /\ HasText(ContentList(resp.body)[1]) /\ HasText(ContentList(resp.body)[2])
    /\ FirstText(resp.body) = <<"Adds login fix">>
    /\ summary = <<"Adds login fix">>

----------------------------------------------------------------------------
(* C4 *)

\* C4: when every git command succeeded, no outcome of the HTTP calls aborts the
\* run: it never panics, and it ends with status 0 and the report printed.
C4_NetworkFailuresNonFatal ==
    FailedExecs = {}
        => /\ pc # "panicked"
           /\ exitCode \in {-1, 0}
           /\ exitCode = 0 => Reports # {}

----------------------------------------------------------------------------
(* C5 *)

\* the number the gate compares len(commits) with
GateThreshold(r) == IF r = "B" THEN 2 ELSE 0

\* C5: in the gated revisions (B, C) a finished run with a commit count at or below
\* the threshold sent no request to the remote API and printed an empty summary,
\* and a run that sent one had a commit count above the threshold.
C5_GateSkipsRemoteCall ==
    (rev \in {"B", "C"} /\ pc = "done")
        => /\ CommitCount(commits) <= GateThreshold(rev)
                => (AnthropicRequests = {} /\ summary = <<>>)
           /\ AnthropicRequests # {} => CommitCount(commits) > GateThreshold(rev)

----------------------------------------------------------------------------
(* C6 *)

\* C6: every printed report holds the headers "## Branch:", "## Commits:",
\* "## Changes Overview:" and the summary header in this order, each followed by its
\* value: currentBranch, commits, changesOverview, summary.
C6_ReportLayout ==
    \A n \in Reports :
        LET t == io[n].text
        IN \E b \in Positions(t, "## Branch:"), c \in Positions(t, "## Commits:"),
              o \in Positions(t, "## Changes Overview:"),
              u \in Positions(t, "## Summary:") \cup Positions(t, "# Summary:"),
              d \in Positions(t, "## Detailed Description:") :
                /\ b < c /\ c < o /\ o < u /\ u < d
                /\ SubSeq(t, b + 2, c - 3) = currentBranch
                /\ SubSeq(t, c + 2, o - 3) = commits
                /\ SubSeq(t, o + 2, u - 3) = changesOverview
                /\ SubSeq(t, u + 2, d - 3) = summary

\* a report is out whose commit list itself holds the text of a header
C6_Witness ==
    /\ pc = "done" /\ Reports # {}
    /\ Positions(commits, "## Summary:") # {}
    /\ changesOverview # <<>> /\ summary # <<>>

----------------------------------------------------------------------------
(* C7 *)

\* the ref range a log or diff command was given
RangeOf(e) == e.args[IF e.args[1] = <<"log">> THEN 2 ELSE Len(e.args)]

Compares(e) == IsExec(e) /\ e.args[1] \in {<<"log">>, <<"diff">>}

\* C7: with an argument every log and diff command compares "<arg>..<currentBranch>",
\* whatever the default-remote-branch query returned; with none it compares
\* "<default>..<currentBranch>", <default> being the query's answer less "origin/".
C7_ArgumentOverridesBase ==
    \A i \in DOMAIN io : Compares(io[i]) =>
        \E q \in Ran("rev-parse", "--abbrev-ref") :
            /\ io[q].args[3] = <<"origin/HEAD">>
            /\ IF osArgs # <<>>
               THEN RangeOf(io[i]) = osArgs[1] \o <<"..">> \o currentBranch
               ELSE <<"origin/">> \o SubSeq(RangeOf(io[i]), 1, Len(RangeOf(io[i])) - 1 - Len(currentBranch))
                        \o <<"\n">> = io[q].out
                    /\ RangeOf(io[i]) = baseBranch \o <<"..">> \o currentBranch

----------------------------------------------------------------------------
(* C8 *)

RECURSIVE SquaresOf(_)
SquaresOf(v) == IF v = <<>> THEN 0 ELSE Head(v).k * Head(v).k + SquaresOf(Tail(v))

\* the Euclidean norm is 1 within the tolerance of the format: finite elements, and
\* the squared norm within a half of 1
UnitNorm(v) ==
    /\ \A i \in DOMAIN v : IsFinite(v[i])
    /\ 2 * Abs(SquaresOf(v) - One * One) <= One * One

\* C8: for an embedding with some nonzero element, processEmbeddings' normalized
\* vector has the embedding's length and unit norm, and the returned text is the
\* encoded serialization of this vector.
C8_NormalizedIsUnit ==
    (pc = "processed" /\ \E i \in DOMAIN embeddings : embeddings[i] # Zero)
        => /\ Len(normalized) = Len(embeddings)
           /\ UnitNorm(normalized)
           /\ ~jsonMarshalFloats(normalized).err
           /\ processedEmbeddings = base64Encode(jsonMarshalFloats(normalized).bytes)

----------------------------------------------------------------------------
(* C9 *)

\* the "Compressed Changes" part of a remote prompt of the local-model revision
CompressedPart(prompt) ==
    LET i == CHOOSE x \in Positions(prompt, "Compressed Changes:") : TRUE
        j == CHOOSE x \in Positions(prompt, "Original Content Summary:") : TRUE
    IN SubSeq(prompt, i + 2, j - 3)

\* C9: after compressLogs failed, the original content stands in for the compressed
\* content: the embedding call is made, with the original content as its input, and,
\* unless the embedding call fails, so is the remote call, with the original content
\* in the "Compressed Changes" part of its prompt.
C9_CompressionFailureFallsBack ==
    CompressFailed =>
        /\ compressedContent = content
        /\ pc \in {"embed", "anthropic", "report", "done"}
        /\ pc # "embed" =>
              \E e \in EmbeddingRequests : io[e].req.prompt = content
        /\ (pc \in {"report", "done"} /\ ~EmbeddingFailed) =>
              \E a \in AnthropicRequests : CompressedPart(io[a].req.prompt) = content

\* compression failed, the embedding call went well, and the remote call was made
C9_Witness ==
    /\ rev = "C" /\ pc = "done" /\ CompressFailed /\ ~EmbeddingFailed
    /\ AnthropicRequests # {} /\ content # <<>>

----------------------------------------------------------------------------
(* C10 *)

\* C10: at most one request goes to the remote API; when it goes, the branch, base
\* branch, commit log and diff commands have all run successfully before it and none
\* has failed, and in the local-model revision the compression and the embedding
\* call came before it and the embedding call did not fail; a report comes after
\* the remote call has returned and is the last thing the run does.
C10_OneRemoteCallInOrder ==
    /\ Cardinality(AnthropicRequests) <= 1
    /\ \A a \in AnthropicRequests :
          /\ FailedExecs = {}
          /\ \E b \in Ran("rev-parse", "--abbrev-ref"), q \in Ran("rev-parse", "--abbrev-ref"),
                l \in Ran("log", ""), s \in Ran("diff", "--stat") :
                 /\ io[b].args[3] = <<"HEAD">> /\ io[q].args[3] = <<"origin/HEAD">>
                 /\ b < q /\ q < l /\ l < s /\ s < a
                 /\ rev # "A" => \E d \in Ran("diff", "") : Len(io[d].args) = 2 /\ l < d /\ d < s
          /\ rev = "C" => /\ ~EmbeddingFailed
                          /\ \E c \in CompressRequests, e \in EmbeddingRequests : c < e /\ e < a
    /\ \A n \in Reports :
          /\ n = Len(io) /\ pc = "done"
          /\ \A a \in AnthropicRequests : a < n /\ Answered

\* the local-model revision made its one remote call and printed the report
C10_Witness ==
    /\ rev = "C" /\ pc = "done"
    /\ Cardinality(AnthropicRequests) = 1 /\ Reports # {}

====
